---- MODULE Spec2Model ----
(***************************************************************************)
(* Model of the porter-clone landing page: the module-level content lists  *)
(* of every component file and of src/constants/index.ts, the six          *)
(* presentational components and the Home composition as functions from    *)
(* those lists to a markup tree, the one click handler of Hero, and the    *)
(* clock that CURRENT_YEAR is read from when a module is loaded.           *)
(*                                                                         *)
(* Non-ASCII glyphs of the source are written as their code points         *)
(* ("U+1F69A" for the truck emoji), one token per code point.              *)
(***************************************************************************)
EXTENDS Integers, Sequences, FiniteSets, TLC

VARIABLES
    consts,     \* module-level consts of each component file: consts[file][name]
    registry,   \* the exports of src/constants/index.ts
    output,     \* output[c]: the tree returned by the last render of c, or Unrendered
    first,      \* first[c]: the tree returned by the first render of c, or Unrendered
    renderedAt, \* renderedAt[c]: clock of the first and of the last render of c (0: never)
    renders,    \* number of render calls made so far
    console,    \* lines written with console.log
    location,   \* the browser's current path
    clicks,     \* number of click events dispatched so far
    thrown,     \* errors thrown by render calls and handlers, oldest first
    clock,      \* wall clock, in ticks since the start of 1970
    loadedAt,   \* clock at which the modules were loaded
    tasks,      \* renders of Home in progress: tasks[t] is Idle or the sections built
    layout      \* the last call of RootLayout: the children passed, the tree returned

vars ==
    <<consts, registry, output, first, renderedAt, renders, console, location, clicks,
      thrown, clock, loadedAt, tasks, layout>>

(***************************************************************************)
(* Bounds of the model.                                                    *)
(***************************************************************************)
MaxRenders == 2
MaxClicks == 2
MaxTicks == 1
MaxTasks == 2

(***************************************************************************)
(* Markup nodes.  Every node has the same shape; an attribute the JSX does *)
(* not set is Absent.  A text child is a node with tag "#text".            *)
(***************************************************************************)
Absent == "<absent>"

NoAttrs ==
    [ariaLabel |-> Absent, ariaHidden |-> Absent, role |-> Absent,
     href |-> Absent, title |-> Absent, onClick |-> Absent, lang |-> Absent]

El(tag, className, attrs, children) ==
    [tag |-> tag, className |-> className, attrs |-> attrs, key |-> Absent,
     component |-> Absent, text |-> "", children |-> children]

Text(s) ==
    [tag |-> "#text", className |-> Absent, attrs |-> NoAttrs, key |-> Absent,
     component |-> Absent, text |-> s, children |-> <<>>]

\* key={...} on the element returned by a .map callback
Keyed(k, node) == [node EXCEPT !.key = k]

\* <Component />: the root of what the component function returns
Mount(c, node) == [node EXCEPT !.component = c]

\* Array.prototype.map: one result per entry, in entry order
Map(list, F(_)) == [i \in 1..Len(list) |-> F(list[i])]

\* next/link's Link renders an anchor carrying the props it was given
Link(href, className, ariaLabel, children) ==
    El("a", className, [NoAttrs EXCEPT !.href = href, !.ariaLabel = ariaLabel], children)

(***************************************************************************)
(* Content literals of the component files.                                *)
(***************************************************************************)
\* mutant: an entry pasted twice keeps its href
NAV_LINKS_DupHref == <<
    [href |-> "/enterprise", label |-> "For Enterprise"],
    [href |-> "/partners", label |-> "Delivery Partners"],
    [href |-> "/partners", label |-> "Support"] >>

NAV_LINKS == <<
    [href |-> "/enterprise", label |-> "For Enterprise"],
    [href |-> "/partners", label |-> "Delivery Partners"],
    [href |-> "/support", label |-> "Support"] >>

SERVICE_OPTIONS == <<
    [icon |-> "U+1F69A", label |-> "Truck"],
    [icon |-> "U+1F6F5", label |-> "Two Wheeler"],
    [icon |-> "U+1F4E6", label |-> "Packers & Movers"] >>

DEFAULT_CITY == "Ahmedabad"

SERVICES == <<
    [id |-> "two-wheeler", title |-> "2 Wheeler",
     description |-> "Send packages up to 20kg anytime, anywhere in the city.",
     icon |-> "U+1F3CD U+FE0F"],
    [id |-> "trucks", title |-> "Trucks",
     description |-> "Rent Tata Ace, 8ft Pickup, and more for goods movement.",
     icon |-> "U+1F69A"],
    [id |-> "packers-movers", title |-> "Packers & Movers",
     description |-> "Shift your house or office with our safe and reliable services.",
     icon |-> "U+1F4E6"],
    [id |-> "enterprise", title |-> "Enterprise",
     description |-> "Logistics solutions for businesses of all sizes.",
     icon |-> "U+1F3E2"] >>

FEATURES == <<
    [id |-> "on-time-delivery", icon |-> "U+23F1 U+FE0F", title |-> "On-Time Delivery",
     description |-> "Reliable service that ensures your goods reach their destination on time, every time."],
    [id |-> "real-time-tracking", icon |-> "U+1F4CD", title |-> "Real-time Tracking",
     description |-> "Track your goods in real-time and stay updated with the location of your package."],
    [id |-> "economical-pricing", icon |-> "U+1F4B0", title |-> "Economical Pricing",
     description |-> "Get the best rates in the market with transparent pricing and no hidden charges."] >>

TESTIMONIALS == <<
    [id |-> "testimonial-1",
     quote |-> "Porter has completely transformed how we manage our logistics. The real-time tracking is a game changer for our business.",
     name |-> "Rajesh Kumar", role |-> "Business Owner", avatar |-> "RK"],
    [id |-> "testimonial-2",
     quote |-> "Excellent service! The driver was polite and helpful. I moved my entire house with Porter and it was hassle-free.",
     name |-> "Priya Singh", role |-> "Home Maker", avatar |-> "PS"],
    [id |-> "testimonial-3",
     quote |-> "Affordable and reliable. I use Porter for all my ad-hoc delivery needs. Highly recommended.",
     name |-> "Amit Patel", role |-> "Freelancer", avatar |-> "AP"] >>

\* mutant: the last column is declared without its links
FOOTER_COLUMNS_NoLinks == <<
    [title |-> "Company", links |-> <<
        [label |-> "About Us", href |-> "/about"],
        [label |-> "Offers", href |-> "/offers"],
        [label |-> "Careers", href |-> "/careers"],
        [label |-> "Blog", href |-> "/blog"] >>],
    [title |-> "Download App"] >>

FOOTER_COLUMNS == <<
    [title |-> "Company", links |-> <<
        [label |-> "About Us", href |-> "/about"],
        [label |-> "Offers", href |-> "/offers"],
        [label |-> "Careers", href |-> "/careers"],
        [label |-> "Blog", href |-> "/blog"] >>],
    [title |-> "Services", links |-> <<
        [label |-> "City Tempo", href |-> "/services/city-tempo"],
        [label |-> "Packers & Movers", href |-> "/services/packers-movers"],
        [label |-> "Driver Partners", href |-> "/partners"],
        [label |-> "Enterprise", href |-> "/enterprise"] >>],
    [title |-> "Support", links |-> <<
        [label |-> "Help Center", href |-> "/help"],
        [label |-> "Contact Us", href |-> "/contact"],
        [label |-> "Privacy Policy", href |-> "/privacy"],
        [label |-> "Terms of Service", href |-> "/terms"] >>],
    [title |-> "Download App", links |-> <<
        [label |-> "Android", href |-> "https://play.google.com/store"],
        [label |-> "iOS", href |-> "https://apps.apple.com"] >>] >>

SOCIAL_LINKS == <<
    [icon |-> "F", label |-> "Facebook", href |-> "#"],
    [icon |-> "T", label |-> "Twitter", href |-> "#"],
    [icon |-> "I", label |-> "Instagram", href |-> "#"],
    [icon |-> "L", label |-> "LinkedIn", href |-> "#"] >>

(***************************************************************************)
(* Content literals exported by src/constants/index.ts.                    *)
(***************************************************************************)
Registry_NAV_LINKS == <<
    [href |-> "/enterprise", label |-> "For Enterprise"],
    [href |-> "/partners", label |-> "Delivery Partners"],
    [href |-> "/support", label |-> "Support"] >>

Registry_SERVICES == <<
    [id |-> "two-wheeler",
     title |-> "2 Wheeler",
     description |-> "Send packages up to 20kg anytime, anywhere in the city.",
     icon |-> "U+1F3CD U+FE0F"],
    [id |-> "trucks",
     title |-> "Trucks",
     description |-> "Rent Tata Ace, 8ft Pickup, and more for goods movement.",
     icon |-> "U+1F69A"],
    [id |-> "packers-movers",
     title |-> "Packers & Movers",
     description |-> "Shift your house or office with our safe and reliable services.",
     icon |-> "U+1F4E6"],
    [id |-> "enterprise",
     title |-> "Enterprise",
     description |-> "Logistics solutions for businesses of all sizes.",
     icon |-> "U+1F3E2"] >>

Registry_FEATURES == <<
    [id |-> "on-time-delivery",
     icon |-> "U+23F1 U+FE0F",
     title |-> "On-Time Delivery",
     description |-> "Reliable service that ensures your goods reach their destination on time, every time."],
    [id |-> "real-time-tracking",
     icon |-> "U+1F4CD",
     title |-> "Real-time Tracking",
     description |-> "Track your goods in real-time and stay updated with the location of your package."],
    [id |-> "economical-pricing",
     icon |-> "U+1F4B0",
     title |-> "Economical Pricing",
     description |-> "Get the best rates in the market with transparent pricing and no hidden charges."] >>

Registry_TESTIMONIALS == <<
    [id |-> "testimonial-1",
     quote |-> "Porter has completely transformed how we manage our logistics. The real-time tracking is a game changer for our business.",
     name |-> "Rajesh Kumar",
     role |-> "Business Owner",
     avatar |-> "RK"],
    [id |-> "testimonial-2",
     quote |-> "Excellent service! The driver was polite and helpful. I moved my entire house with Porter and it was hassle-free.",
     name |-> "Priya Singh",
     role |-> "Home Maker",
     avatar |-> "PS"],
    [id |-> "testimonial-3",
     quote |-> "Affordable and reliable. I use Porter for all my ad-hoc delivery needs. Highly recommended.",
     name |-> "Amit Patel",
     role |-> "Freelancer",
     avatar |-> "AP"] >>

Registry_FOOTER_COLUMNS == <<
    [title |-> "Company",
     links |-> <<
            [label |-> "About Us", href |-> "/about"],
            [label |-> "Offers", href |-> "/offers"],
            [label |-> "Careers", href |-> "/careers"],
            [label |-> "Blog", href |-> "/blog"] >>],
    [title |-> "Services",
     links |-> <<
            [label |-> "City Tempo", href |-> "/services/city-tempo"],
            [label |-> "Packers & Movers", href |-> "/services/packers-movers"],
            [label |-> "Driver Partners", href |-> "/partners"],
            [label |-> "Enterprise", href |-> "/enterprise"] >>],
    [title |-> "Support",
     links |-> <<
            [label |-> "Help Center", href |-> "/help"],
            [label |-> "Contact Us", href |-> "/contact"],
            [label |-> "Privacy Policy", href |-> "/privacy"],
            [label |-> "Terms of Service", href |-> "/terms"] >>],
    [title |-> "Download App",
     links |-> <<
            [label |-> "Android", href |-> "https://play.google.com/store"],
            [label |-> "iOS", href |-> "https://apps.apple.com"] >>] >>

Registry_SOCIAL_LINKS == <<
    [icon |-> "F", label |-> "Facebook", href |-> "#"],
    [icon |-> "T", label |-> "Twitter", href |-> "#"],
    [icon |-> "I", label |-> "Instagram", href |-> "#"],
    [icon |-> "L", label |-> "LinkedIn", href |-> "#"] >>

\* mutant: the registry's copy has drifted from Hero's
Registry_DEFAULT_CITY_Drifted == "Bengaluru"

Registry_DEFAULT_CITY == "Ahmedabad"

Registry_SERVICE_OPTIONS == <<
    [icon |-> "U+1F69A", label |-> "Truck"],
    [icon |-> "U+1F6F5", label |-> "Two Wheeler"],
    [icon |-> "U+1F4E6", label |-> "Packers & Movers"] >>

(***************************************************************************)
(* Modules and their imports.                                              *)
(***************************************************************************)
ComponentFiles == {"Header", "Hero", "Services", "Features", "Testimonials", "Footer"}

Components == ComponentFiles \cup {"Home"}

RegistryModule == "@/constants"

Imports ==
    [Header |-> {"next/link", "./Header.module.css"},
     Hero |-> {"./Hero.module.css"},
     Services |-> {"./Services.module.css"},
     Features |-> {"./Features.module.css"},
     Testimonials |-> {"./Testimonials.module.css"},
     Footer |-> {"./Footer.module.css"},
     Home |-> {"@/components/layout/Header", "@/components/layout/Footer",
               "@/components/home/Hero", "@/components/home/Services",
               "@/components/home/Features", "@/components/home/Testimonials"}]

(***************************************************************************)
(* The clock and Date.prototype.getFullYear.  The clock counts ticks of    *)
(* 1/TicksPerYear of a year since the start of 1970.                       *)
(***************************************************************************)
TicksPerYear == 2

getFullYear(t) == 1970 + (t \div TicksPerYear)

\* the last tick of 2026: one Tick later the calendar year is 2027
FirstTick == (2026 - 1970) * TicksPerYear + (TicksPerYear - 1)

(***************************************************************************)
(* Header (components/layout/Header.tsx)                                   *)
(***************************************************************************)
\* NAV_LINKS.map(...) of Header
navLinks ==
    Map(consts.Header.NAV_LINKS, LAMBDA link:
        Keyed(link.href,
            Link(link.href, "styles.navLink", Absent, <<Text(link.label)>>)))

\* mutant: the Login button is wired to a handler
Header_LoginWired ==
    El("header", "styles.header", NoAttrs, <<
        El("div", "container " \o "styles.headerContainer", NoAttrs, <<
            Link("/", "styles.logo", "Porter Home", <<Text("PORTER")>>),
            El("nav", "styles.nav", [NoAttrs EXCEPT !.ariaLabel = "Main navigation"],
                navLinks),
            El("div", "styles.actions", NoAttrs, <<
                El("button", "styles.secondaryBtn",
                    [NoAttrs EXCEPT !.ariaLabel = "Track your order"],
                    <<Text("Track Order")>>),
                El("button", "styles.primaryBtn",
                    [NoAttrs EXCEPT !.ariaLabel = "Login to account",
                                    !.onClick = "handleGetEstimate"],
                    <<Text("Login")>>) >>) >>) >>)

Header ==
    El("header", "styles.header", NoAttrs, <<
        El("div", "container " \o "styles.headerContainer", NoAttrs, <<
            Link("/", "styles.logo", "Porter Home", <<Text("PORTER")>>),
            El("nav", "styles.nav", [NoAttrs EXCEPT !.ariaLabel = "Main navigation"],
                navLinks),
            El("div", "styles.actions", NoAttrs, <<
                El("button", "styles.secondaryBtn",
                    [NoAttrs EXCEPT !.ariaLabel = "Track your order"],
                    <<Text("Track Order")>>),
                El("button", "styles.primaryBtn",
                    [NoAttrs EXCEPT !.ariaLabel = "Login to account"],
                    <<Text("Login")>>) >>) >>) >>)

(***************************************************************************)
(* Hero (components/home/Hero.tsx)                                         *)
(***************************************************************************)
\* mutant: the icon span of an option is not marked aria-hidden
serviceOptions_IconExposed ==
    Map(consts.Hero.SERVICE_OPTIONS, LAMBDA service:
        Keyed(service.label,
            El("div", "styles.serviceOption", NoAttrs, <<
                El("span", "styles.serviceIcon", NoAttrs, <<Text(service.icon)>>),
                El("span", "styles.serviceLabel", NoAttrs,
                    <<Text(service.label)>>) >>)))

\* SERVICE_OPTIONS.map(...) of Hero
serviceOptions ==
    Map(consts.Hero.SERVICE_OPTIONS, LAMBDA service:
        Keyed(service.label,
            El("div", "styles.serviceOption", NoAttrs, <<
                El("span", "styles.serviceIcon",
                    [NoAttrs EXCEPT !.ariaHidden = "true"],
                    <<Text(service.icon)>>),
                El("span", "styles.serviceLabel", NoAttrs,
                    <<Text(service.label)>>) >>)))

\* mutant: the estimate button comes before the service options
Hero_ButtonFirst ==
    El("section", "styles.heroSection", NoAttrs, <<
        El("div", "container", NoAttrs, <<
            El("div", "styles.heroContent", NoAttrs, <<
                El("h2", "styles.heroTitle", NoAttrs, <<Text("Delivery hai?")>>),
                El("h1", "styles.heroHashtag", NoAttrs, <<Text("#HoJayega!")>>) >>) >>),
        El("div", "styles.floatingWidgetContainer", NoAttrs, <<
            El("div", "styles.floatingWidget", NoAttrs, <<
                El("div", "styles.citySelector",
                    [NoAttrs EXCEPT !.role = "region", !.ariaLabel = "Location selector"], <<
                    El("span", "styles.cityIcon", [NoAttrs EXCEPT !.ariaHidden = "true"],
                        <<Text("U+1F4CD")>>),
                    El("span", Absent, NoAttrs, <<
                        Text("City: "),
                        El("strong", Absent, NoAttrs,
                            <<Text(consts.Hero.DEFAULT_CITY)>>) >>),
                    El("span", Absent, [NoAttrs EXCEPT !.ariaHidden = "true"],
                        <<Text("U+25BC")>>) >>),
                El("div", "styles.servicesGrid",
                    [NoAttrs EXCEPT !.role = "region", !.ariaLabel = "Service options"],
                    << El("button", "styles.estimateBtn",
                        [NoAttrs EXCEPT !.onClick = "handleGetEstimate",
                                        !.ariaLabel = "Get estimate for delivery"], <<
                        El("span", "styles.btnText", NoAttrs,
                            <<Text("Get an Estimate U+2192")>>),
                        El("span", "styles.btnSubtext", NoAttrs,
                            <<Text("(takes ~2 mins)")>>) >>) >>
                    \o serviceOptions) >>) >>) >>)

Hero ==
    El("section", "styles.heroSection", NoAttrs, <<
        El("div", "container", NoAttrs, <<
            El("div", "styles.heroContent", NoAttrs, <<
                El("h2", "styles.heroTitle", NoAttrs, <<Text("Delivery hai?")>>),
                El("h1", "styles.heroHashtag", NoAttrs, <<Text("#HoJayega!")>>) >>) >>),
        El("div", "styles.floatingWidgetContainer", NoAttrs, <<
            El("div", "styles.floatingWidget", NoAttrs, <<
                El("div", "styles.citySelector",
                    [NoAttrs EXCEPT !.role = "region", !.ariaLabel = "Location selector"], <<
                    El("span", "styles.cityIcon", [NoAttrs EXCEPT !.ariaHidden = "true"],
                        <<Text("U+1F4CD")>>),
                    El("span", Absent, NoAttrs, <<
                        Text("City: "),
                        El("strong", Absent, NoAttrs,
                            <<Text(consts.Hero.DEFAULT_CITY)>>) >>),
                    El("span", Absent, [NoAttrs EXCEPT !.ariaHidden = "true"],
                        <<Text("U+25BC")>>) >>),
                El("div", "styles.servicesGrid",
                    [NoAttrs EXCEPT !.role = "region", !.ariaLabel = "Service options"],
                    serviceOptions \o <<
                    El("button", "styles.estimateBtn",
                        [NoAttrs EXCEPT !.onClick = "handleGetEstimate",
                                        !.ariaLabel = "Get estimate for delivery"], <<
                        El("span", "styles.btnText", NoAttrs,
                            <<Text("Get an Estimate U+2192")>>),
                        El("span", "styles.btnSubtext", NoAttrs,
                            <<Text("(takes ~2 mins)")>>) >>) >>) >>) >>) >>)

(***************************************************************************)
(* Services (components/home/Services.tsx)                                 *)
(***************************************************************************)
\* mutant: the cards come out in reverse order
serviceCards_Reversed ==
    Map(consts.Services.SERVICES, LAMBDA service:
        LET last == consts.Services.SERVICES[
                        Len(consts.Services.SERVICES) + 1 - CHOOSE i \in
                            DOMAIN consts.Services.SERVICES :
                                consts.Services.SERVICES[i] = service]
        IN  Keyed(last.id,
                El("div", "styles.card", NoAttrs, <<
                    El("div", "styles.iconPlaceholder",
                        [NoAttrs EXCEPT !.ariaHidden = "true"],
                        <<Text(last.icon)>>),
                    El("h3", "styles.cardTitle", NoAttrs, <<Text(last.title)>>),
                    El("p", "styles.cardDesc", NoAttrs,
                        <<Text(last.description)>>) >>)))

\* mutant: the last entry is not rendered
serviceCards_FirstThree ==
    Map(SubSeq(consts.Services.SERVICES, 1, Len(consts.Services.SERVICES) - 1),
        LAMBDA service:
            Keyed(service.id,
                El("div", "styles.card", NoAttrs, <<
                    El("div", "styles.iconPlaceholder",
                        [NoAttrs EXCEPT !.ariaHidden = "true"],
                        <<Text(service.icon)>>),
                    El("h3", "styles.cardTitle", NoAttrs, <<Text(service.title)>>),
                    El("p", "styles.cardDesc", NoAttrs,
                        <<Text(service.description)>>) >>)))

\* SERVICES.map(...) of Services
serviceCards ==
    Map(consts.Services.SERVICES, LAMBDA service:
        Keyed(service.id,
            El("div", "styles.card", NoAttrs, <<
                El("div", "styles.iconPlaceholder",
                    [NoAttrs EXCEPT !.ariaHidden = "true"],
                    <<Text(service.icon)>>),
                El("h3", "styles.cardTitle", NoAttrs, <<Text(service.title)>>),
                El("p", "styles.cardDesc", NoAttrs,
                    <<Text(service.description)>>) >>)))

\* mutant: the root is a plain div
Services_DivRoot ==
    El("div", "styles.section", NoAttrs, <<
        El("div", "container", NoAttrs, <<
            El("h2", "styles.title", NoAttrs, <<Text("Services We Offer")>>),
            El("div", "styles.grid", NoAttrs, serviceCards) >>) >>)

\* mutant: the section title is a second h1
Services_H1Title ==
    El("section", "styles.section", NoAttrs, <<
        El("div", "container", NoAttrs, <<
            El("h1", "styles.title", NoAttrs, <<Text("Services We Offer")>>),
            El("div", "styles.grid", NoAttrs, serviceCards) >>) >>)

Services ==
    El("section", "styles.section", NoAttrs, <<
        El("div", "container", NoAttrs, <<
            El("h2", "styles.title", NoAttrs, <<Text("Services We Offer")>>),
            El("div", "styles.grid", NoAttrs, serviceCards) >>) >>)

(***************************************************************************)
(* Features and Testimonials (components/home/Features.tsx)                *)
(***************************************************************************)
\* mutant: the first two blocks are swapped
featureBlocks_Swapped ==
    Map(<<consts.Features.FEATURES[2], consts.Features.FEATURES[1]>>
            \o SubSeq(consts.Features.FEATURES, 3, Len(consts.Features.FEATURES)),
        LAMBDA feature:
            Keyed(feature.id,
                El("div", "styles.feature", NoAttrs, <<
                    El("div", "styles.icon", [NoAttrs EXCEPT !.ariaHidden = "true"],
                        <<Text(feature.icon)>>),
                    El("h3", "styles.featureTitle", NoAttrs, <<Text(feature.title)>>),
                    El("p", "styles.featureText", NoAttrs,
                        <<Text(feature.description)>>) >>)))

\* FEATURES.map(...) of Features
featureBlocks ==
    Map(consts.Features.FEATURES, LAMBDA feature:
        Keyed(feature.id,
            El("div", "styles.feature", NoAttrs, <<
                El("div", "styles.icon", [NoAttrs EXCEPT !.ariaHidden = "true"],
                    <<Text(feature.icon)>>),
                El("h3", "styles.featureTitle", NoAttrs, <<Text(feature.title)>>),
                El("p", "styles.featureText", NoAttrs,
                    <<Text(feature.description)>>) >>)))

Features ==
    El("section", "styles.section", NoAttrs, <<
        El("div", "container", NoAttrs, <<
            El("h2", "styles.title", NoAttrs, <<Text("Why Choose Porter?")>>),
            El("div", "styles.grid", NoAttrs, featureBlocks) >>) >>)

\* mutant: the avatar's title gives the role only, and the role precedes the name
testimonialCards_RoleFirst ==
    Map(consts.Testimonials.TESTIMONIALS, LAMBDA testimonial:
        Keyed(testimonial.id,
            El("div", "styles.card", NoAttrs, <<
                El("p", "styles.quote", NoAttrs,
                    <<Text("\""), Text(testimonial.quote), Text("\"")>>),
                El("div", "styles.author", NoAttrs, <<
                    El("div", "styles.avatar",
                        [NoAttrs EXCEPT
                            !.title = testimonial.role,
                            !.ariaLabel = testimonial.name],
                        <<Text(testimonial.avatar)>>),
                    El("div", "styles.authorInfo", NoAttrs, <<
                        El("span", "styles.role", NoAttrs,
                            <<Text(testimonial.role)>>),
                        El("span", "styles.name", NoAttrs,
                            <<Text(testimonial.name)>>) >>) >>) >>)))

\* TESTIMONIALS.map(...) of Testimonials
testimonialCards ==
    Map(consts.Testimonials.TESTIMONIALS, LAMBDA testimonial:
        Keyed(testimonial.id,
            El("div", "styles.card", NoAttrs, <<
                El("p", "styles.quote", NoAttrs,
                    <<Text("\""), Text(testimonial.quote), Text("\"")>>),
                El("div", "styles.author", NoAttrs, <<
                    El("div", "styles.avatar",
                        [NoAttrs EXCEPT
                            !.title = testimonial.name \o " - " \o testimonial.role,
                            !.ariaLabel = testimonial.name],
                        <<Text(testimonial.avatar)>>),
                    El("div", "styles.authorInfo", NoAttrs, <<
                        El("span", "styles.name", NoAttrs,
                            <<Text(testimonial.name)>>),
                        El("span", "styles.role", NoAttrs,
                            <<Text(testimonial.role)>>) >>) >>) >>)))

Testimonials ==
    El("section", "styles.section", NoAttrs, <<
        El("div", "container", NoAttrs, <<
            El("h2", "styles.title", NoAttrs, <<Text("What our customers say")>>),
            El("div", "styles.grid", NoAttrs, testimonialCards) >>) >>)

(***************************************************************************)
(* Footer (components/layout/Footer.tsx)                                   *)
(***************************************************************************)
\* mutant: every column's <nav> carries the same label
footerColumns_FixedNavLabel ==
    Map(consts.Footer.FOOTER_COLUMNS, LAMBDA column:
        Keyed(column.title,
            El("div", Absent, NoAttrs, <<
                El("h4", "styles.columnTitle", NoAttrs, <<Text(column.title)>>),
                El("nav", "styles.linkList",
                    [NoAttrs EXCEPT !.ariaLabel = "Footer links"],
                    Map(column.links, LAMBDA link:
                        Keyed(link.href,
                            El("a", "styles.link",
                                [NoAttrs EXCEPT !.href = link.href],
                                <<Text(link.label)>>)))) >>)))

\* FOOTER_COLUMNS.map(...) of Footer
footerColumns ==
    Map(consts.Footer.FOOTER_COLUMNS, LAMBDA column:
        Keyed(column.title,
            El("div", Absent, NoAttrs, <<
                El("h4", "styles.columnTitle", NoAttrs, <<Text(column.title)>>),
                El("nav", "styles.linkList",
                    [NoAttrs EXCEPT !.ariaLabel = column.title \o " links"],
                    Map(column.links, LAMBDA link:
                        Keyed(link.href,
                            El("a", "styles.link",
                                [NoAttrs EXCEPT !.href = link.href],
                                <<Text(link.label)>>)))) >>)))

\* mutant: the social links are keyed by href, like the column links
socialLinks_KeyedByHref ==
    Map(consts.Footer.SOCIAL_LINKS, LAMBDA social:
        Keyed(social.href,
            El("a", "styles.socialIcon",
                [NoAttrs EXCEPT !.href = social.href,
                                !.ariaLabel = social.label],
                <<Text(social.icon)>>)))

\* SOCIAL_LINKS.map(...) of Footer
socialLinks ==
    Map(consts.Footer.SOCIAL_LINKS, LAMBDA social:
        Keyed(social.label,
            El("a", "styles.socialIcon",
                [NoAttrs EXCEPT !.href = social.href,
                                !.ariaLabel = social.label],
                <<Text(social.icon)>>)))

\* mutant: the year is read from the clock on every render
copyrightYear_AtRender == getFullYear(clock)

\* {CURRENT_YEAR} in the copyright line
copyrightYear == consts.Footer.CURRENT_YEAR

Footer ==
    El("footer", "styles.footer", NoAttrs, <<
        El("div", "container", NoAttrs, <<
            El("div", "styles.grid", NoAttrs,
                footerColumns),
            El("div", "styles.bottom", NoAttrs, <<
                El("p", Absent, NoAttrs, <<
                    Text("U+00A9 "),
                    Text(ToString(copyrightYear)),
                    Text(" Porter. All rights reserved.") >>),
                El("div", "styles.socials",
                    [NoAttrs EXCEPT !.ariaLabel = "Social media links"],
                    socialLinks) >>) >>) >>)

(***************************************************************************)
(* Home (app/page.tsx)                                                     *)
(***************************************************************************)
\* mutant: Hero is placed above Header
Home_HeroFirst ==
    El("main", Absent, NoAttrs, <<
        Mount("Hero", Hero),
        Mount("Header", Header),
        Mount("Services", Services),
        Mount("Features", Features),
        Mount("Testimonials", Testimonials),
        Mount("Footer", Footer) >>)

Home ==
    El("main", Absent, NoAttrs, <<
        Mount("Header", Header),
        Mount("Hero", Hero),
        Mount("Services", Services),
        Mount("Features", Features),
        Mount("Testimonials", Testimonials),
        Mount("Footer", Footer) >>)

(***************************************************************************)
(* RootLayout (app/layout.tsx)                                             *)
(***************************************************************************)
\* mutant: the children are wrapped in one more element
RootLayout_Wrapped(children) ==
    El("html", Absent, [NoAttrs EXCEPT !.lang = "en"], <<
        El("body", "inter.className", NoAttrs, <<
            El("div", Absent, NoAttrs, children) >>) >>)

RootLayout(children) ==
    El("html", Absent, [NoAttrs EXCEPT !.lang = "en"], <<
        El("body", "inter.className", NoAttrs, children) >>)

(***************************************************************************)
(* Rendering and the page's state.                                         *)
(***************************************************************************)
Unrendered == El("#unrendered", Absent, NoAttrs, <<>>)

\* what the component function named c returns
Tree(c) ==
    CASE c = "Header" -> Mount(c, Header)
      [] c = "Hero" -> Mount(c, Hero)
      [] c = "Services" -> Mount(c, Services)
      [] c = "Features" -> Mount(c, Features)
      [] c = "Testimonials" -> Mount(c, Testimonials)
      [] c = "Footer" -> Mount(c, Footer)
      [] c = "Home" -> Mount(c, Home)

\* the component functions a render of c calls
Called(c) == IF c = "Home" THEN Components ELSE {c}

\* a call of the component function c throws: Footer calls column.links.map, a
\* TypeError when a column has no links; a missing field of an entry reads as
\* undefined and throws nothing; Home throws when a component it calls throws
Throws(c) ==
    \E d \in Called(c) :
        d = "Footer" /\ \E i \in DOMAIN consts.Footer.FOOTER_COLUMNS :
                            "links" \notin DOMAIN consts.Footer.FOOTER_COLUMNS[i]

\* the nodes of a tree in document order
RECURSIVE Flatten(_), FlattenAll(_)
Flatten(node) == <<node>> \o FlattenAll(node.children)
FlattenAll(nodes) ==
    IF nodes = <<>> THEN <<>> ELSE Flatten(Head(nodes)) \o FlattenAll(Tail(nodes))

Range(s) == {s[i] : i \in DOMAIN s}

\* the buttons of the trees rendered so far
MountedButtons ==
    UNION {{n \in Range(Flatten(output[c])) : n.tag = "button"} : c \in Components}

\* the service options of Hero's widget in the trees rendered so far
MountedServiceOptions ==
    UNION {{n \in Range(Flatten(output[c])) : n.className = "styles.serviceOption"} :
              c \in Components}

\* the elements a user clicks on
ClickTargets == MountedButtons \cup MountedServiceOptions

\* the renders of Home a scheduler may have in progress at the same time
TaskIds == 1..MaxTasks

\* a task that is not rendering; a running task holds the sections built so far
Idle == <<Unrendered>>

Init ==
    /\ clock \in {FirstTick, FirstTick + 1}
    /\ consts =
        [Header |-> [NAV_LINKS |-> NAV_LINKS],
         Hero |-> [SERVICE_OPTIONS |-> SERVICE_OPTIONS, DEFAULT_CITY |-> DEFAULT_CITY],
         Services |-> [SERVICES |-> SERVICES],
         Features |-> [FEATURES |-> FEATURES],
         Testimonials |-> [TESTIMONIALS |-> TESTIMONIALS],
         Footer |-> [FOOTER_COLUMNS |-> FOOTER_COLUMNS, SOCIAL_LINKS |-> SOCIAL_LINKS,
                     CURRENT_YEAR |-> getFullYear(clock)]]
    /\ registry =
        [NAV_LINKS |-> Registry_NAV_LINKS, SERVICES |-> Registry_SERVICES,
         FEATURES |-> Registry_FEATURES, TESTIMONIALS |-> Registry_TESTIMONIALS,
         FOOTER_COLUMNS |-> Registry_FOOTER_COLUMNS,
         SOCIAL_LINKS |-> Registry_SOCIAL_LINKS,
         DEFAULT_CITY |-> Registry_DEFAULT_CITY,
         SERVICE_OPTIONS |-> Registry_SERVICE_OPTIONS,
         CURRENT_YEAR |-> getFullYear(clock)]
    /\ output = [c \in Components |-> Unrendered]
    /\ first = [c \in Components |-> Unrendered]
    /\ renderedAt = [c \in Components |-> [first |-> 0, last |-> 0]]
    /\ renders = 0
    /\ console = <<>>
    /\ location = "/"
    /\ clicks = 0
    /\ thrown = <<>>
    /\ loadedAt = clock
    /\ tasks = [t \in TaskIds |-> Idle]
    /\ layout = [children |-> <<>>, tree |-> Unrendered]

\* mutant: a render reverses SOCIAL_LINKS in place before mapping it
Render_ReversesInPlace(c) ==
    /\ renders < MaxRenders
    /\ renders' = renders + 1
    /\ consts' = [consts EXCEPT !.Footer.SOCIAL_LINKS =
                    [i \in DOMAIN @ |-> @[Len(@) + 1 - i]]]
    /\ output' = [d \in Components |-> IF d \in Called(c) THEN Tree(d) ELSE output[d]]
    /\ first' = [d \in Components |->
                    IF d \in Called(c) /\ first[d] = Unrendered THEN Tree(d) ELSE first[d]]
    /\ renderedAt' = [d \in Components |->
                    IF d \in Called(c)
                        THEN [first |-> IF first[d] = Unrendered THEN clock
                                        ELSE renderedAt[d].first,
                              last |-> clock]
                        ELSE renderedAt[d]]
    /\ UNCHANGED <<registry, console, location, clicks, thrown, clock, loadedAt, tasks,
                   layout>>

\* one call of the component function c (Home calls the six others)
Render(c) ==
    /\ renders < MaxRenders
    /\ renders' = renders + 1
    /\ IF Throws(c)
          THEN /\ thrown' = Append(thrown, [component |-> c, error |-> "TypeError"])
               /\ UNCHANGED <<output, first, renderedAt>>
          ELSE /\ output' = [d \in Components |->
                                IF d \in Called(c) THEN Tree(d) ELSE output[d]]
               /\ first' = [d \in Components |->
                                IF d \in Called(c) /\ first[d] = Unrendered
                                    THEN Tree(d) ELSE first[d]]
               /\ renderedAt' = [d \in Components |->
                                IF d \in Called(c)
                                    THEN [first |-> IF first[d] = Unrendered THEN clock
                                                    ELSE renderedAt[d].first,
                                          last |-> clock]
                                    ELSE renderedAt[d]]
               /\ UNCHANGED thrown
    /\ UNCHANGED <<consts, registry, console, location, clicks, clock, loadedAt, tasks,
                   layout>>

\* mutant: the handler opens the estimate page
handleGetEstimate_Navigates ==
    /\ console' = Append(console, "Get estimate clicked")
    /\ location' = "/estimate"
    /\ UNCHANGED <<consts, registry, output, first, renderedAt, thrown>>

\* Hero's click handler
handleGetEstimate ==
    /\ console' = Append(console, "Get estimate clicked")
    /\ UNCHANGED <<consts, registry, output, first, renderedAt, location, thrown>>

\* a click on a rendered element runs its onClick handler, if it has one
Click(b) ==
    /\ clicks < MaxClicks
    /\ clicks' = clicks + 1
    /\ IF b.attrs.onClick = "handleGetEstimate"
          THEN handleGetEstimate
          ELSE UNCHANGED <<consts, registry, output, first, renderedAt, location, console,
                           thrown>>
    /\ UNCHANGED <<renders, clock, loadedAt, tasks, layout>>

\* time passes
Tick ==
    /\ clock < FirstTick + MaxTicks
    /\ clock' = clock + 1
    /\ UNCHANGED <<consts, registry, output, first, renderedAt, renders, console,
                   location, clicks, thrown, loadedAt, tasks, layout>>

Next ==
    \/ \E c \in Components : Render(c)
    \/ \E b \in ClickTargets : Click(b)
    \/ Tick

Spec == Init /\ [][Next]_vars

(***************************************************************************)
(* The root shell (app/layout.tsx): the framework calls RootLayout with    *)
(* the page as children; children is any React node, here a list of nodes. *)
(***************************************************************************)
\* the children RootLayout may be called with
LayoutChildren ==
    {<<>>, <<Text("Loading...")>>}
        \cup {<<output[c]>> : c \in {d \in Components : output[d] # Unrendered}}
        \cup (IF output.Header # Unrendered /\ output.Footer # Unrendered
                  THEN {<<output.Header, output.Footer>>} ELSE {})

RenderLayout(children) ==
    /\ layout' = [children |-> children, tree |-> RootLayout(children)]
    /\ UNCHANGED <<consts, registry, output, first, renderedAt, renders, console,
                   location, clicks, thrown, clock, loadedAt, tasks>>

NextLayout ==
    \/ \E c \in Components : Render(c)
    \/ \E children \in LayoutChildren : RenderLayout(children)
    \/ Tick

SpecLayout == Init /\ [][NextLayout]_vars

(***************************************************************************)
(* Renders of the page in progress at the same time: a scheduler may       *)
(* switch between renders of Home after any call of a component function.  *)
(* No step of a render reads the clock (CURRENT_YEAR is read when the      *)
(* module is loaded), so the clock stands still here.                      *)
(***************************************************************************)
\* the component functions Home calls, in the order of its JSX
HomeCalls == <<"Header", "Hero", "Services", "Features", "Testimonials", "Footer">>

\* a render of Home begins, in the lowest free slot
StartRender(t) ==
    /\ tasks[t] = Idle
    /\ \A u \in TaskIds : u < t => tasks[u] # Idle
    /\ renders + Cardinality({u \in TaskIds : tasks[u] # Idle}) < MaxRenders
    /\ tasks' = [tasks EXCEPT ![t] = <<>>]
    /\ UNCHANGED <<consts, registry, output, first, renderedAt, renders, console,
                   location, clicks, thrown, clock, loadedAt, layout>>

\* mutant: the sections are collected in one list shared by all renders in progress
StepRender_SharedChildren(t) ==
    /\ tasks[t] # Idle
    /\ Len(tasks[t]) < Len(HomeCalls)
    /\ LET d == HomeCalls[Len(tasks[t]) + 1]
       IN  /\ tasks' = [u \in TaskIds |->
                           IF tasks[u] # Idle THEN Append(tasks[u], Tree(d)) ELSE tasks[u]]
           /\ output' = [output EXCEPT ![d] = Tree(d)]
           /\ first' = [first EXCEPT ![d] = IF @ = Unrendered THEN Tree(d) ELSE @]
           /\ renderedAt' = [renderedAt EXCEPT ![d] =
                                [first |-> IF first[d] = Unrendered THEN clock ELSE @.first,
                                 last |-> clock]]
           /\ UNCHANGED <<renders, thrown>>
    /\ UNCHANGED <<consts, registry, console, location, clicks, clock, loadedAt, layout>>

\* the render calls the next component function of Home
StepRender(t) ==
    /\ tasks[t] # Idle
    /\ Len(tasks[t]) < Len(HomeCalls)
    /\ LET d == HomeCalls[Len(tasks[t]) + 1]
       IN  IF Throws(d)
              THEN /\ thrown' = Append(thrown, [component |-> "Home", error |-> "TypeError"])
                   /\ tasks' = [tasks EXCEPT ![t] = Idle]
                   /\ renders' = renders + 1
                   /\ UNCHANGED <<output, first, renderedAt>>
              ELSE /\ tasks' = [tasks EXCEPT ![t] = Append(@, Tree(d))]
                   /\ output' = [output EXCEPT ![d] = Tree(d)]
                   /\ first' = [first EXCEPT ![d] = IF @ = Unrendered THEN Tree(d) ELSE @]
                   /\ renderedAt' = [renderedAt EXCEPT ![d] =
                                        [first |-> IF first[d] = Unrendered THEN clock
                                                   ELSE @.first,
                                         last |-> clock]]
                   /\ UNCHANGED <<renders, thrown>>
    /\ UNCHANGED <<consts, registry, console, location, clicks, clock, loadedAt, layout>>

\* the render returns its <main> with the sections it built
FinishRender(t) ==
    /\ tasks[t] # Idle
    /\ Len(tasks[t]) = Len(HomeCalls)
    /\ LET tree == Mount("Home", El("main", Absent, NoAttrs, tasks[t]))
       IN  /\ output' = [output EXCEPT !.Home = tree]
           /\ first' = [first EXCEPT !.Home = IF @ = Unrendered THEN tree ELSE @]
           /\ renderedAt' = [renderedAt EXCEPT !.Home =
                                [first |-> IF first.Home = Unrendered THEN clock
                                           ELSE @.first,
                                 last |-> clock]]
    /\ tasks' = [tasks EXCEPT ![t] = Idle]
    /\ renders' = renders + 1
    /\ UNCHANGED <<consts, registry, console, location, clicks, thrown, clock, loadedAt,
                   layout>>

\* the rendered buttons that carry a handler
EstimateButtons == {b \in MountedButtons : b.attrs.onClick # Absent}

NextInterleaved ==
    \/ \E t \in TaskIds : StartRender(t)
    \/ \E t \in TaskIds : StepRender(t)
    \/ \E t \in TaskIds : FinishRender(t)
    \/ \E b \in EstimateButtons : Click(b)

SpecInterleaved == Init /\ [][NextInterleaved]_vars

(***************************************************************************)
(* Reading a rendered tree.                                                *)
(***************************************************************************)
Rendered(c) == output[c] # Unrendered

ByTag(tree, tag) == SelectSeq(Flatten(tree), LAMBDA n : n.tag = tag)

ByClass(tree, className) == SelectSeq(Flatten(tree), LAMBDA n : n.className = className)

RECURSIVE Concat(_)
Concat(strings) ==
    IF strings = <<>> THEN "" ELSE Head(strings) \o Concat(Tail(strings))

\* the text a node shows: the text of its descendants in document order
TextOf(node) ==
    LET nodes == Flatten(node) IN Concat([i \in DOMAIN nodes |-> nodes[i].text])

Distinct(s) == \A i, j \in DOMAIN s : i # j => s[i] # s[j]

Field(list, F(_)) == [i \in DOMAIN list |-> F(list[i])]

(***************************************************************************)
(* C1: a render of Home returns one <main> whose children are exactly the  *)
(* six sections Header, Hero, Services, Features, Testimonials, Footer,    *)
(* each once and in that order.                                            *)
(***************************************************************************)
SectionOrder == <<"Header", "Hero", "Services", "Features", "Testimonials", "Footer">>

C1_HomeComposition ==
    Rendered("Home") =>
        /\ output.Home.tag = "main"
        /\ Len(ByTag(output.Home, "main")) = 1
        /\ Field(output.Home.children, LAMBDA n : n.component) = SectionOrder
        /\ Field(output.Home.children, LAMBDA n : n.tag)
              = <<"header", "section", "section", "section", "section", "footer">>
        /\ \A i \in DOMAIN SectionOrder :
              output.Home.children[i] = output[SectionOrder[i]]
        \* no section is mounted anywhere else in the tree
        /\ Len(SelectSeq(Flatten(output.Home), LAMBDA n : n.component \in ComponentFiles))
              = Len(SectionOrder)

C1_Witness == Rendered("Home") /\ renders >= 2 /\ renderedAt.Home.first < renderedAt.Home.last

(***************************************************************************)
(* C2: every content list is rendered as exactly one node per entry, in    *)
(* the order of the list: NAV_LINKS in Header, SERVICE_OPTIONS in Hero,    *)
(* SERVICES in Services, FEATURES in Features, TESTIMONIALS in             *)
(* Testimonials, FOOTER_COLUMNS (and each column's links) and SOCIAL_LINKS *)
(* in Footer.                                                              *)
(***************************************************************************)
OnePerEntry(nodes, list, Shows(_, _)) ==
    /\ Len(nodes) = Len(list)
    /\ \A i \in DOMAIN list : Shows(nodes[i], list[i])

ShowsLink(n, link) ==
    n.tag = "a" /\ n.attrs.href = link.href /\ TextOf(n) = link.label

C2_OneNodePerEntry ==
    /\ Rendered("Header") =>
          OnePerEntry(ByTag(output.Header, "nav")[1].children,
                      consts.Header.NAV_LINKS, ShowsLink)
    /\ Rendered("Hero") =>
          OnePerEntry(ByClass(output.Hero, "styles.serviceOption"),
                      consts.Hero.SERVICE_OPTIONS,
                      LAMBDA n, e : TextOf(n) = e.icon \o e.label)
    /\ Rendered("Services") =>
          OnePerEntry(ByClass(output.Services, "styles.grid")[1].children,
                      consts.Services.SERVICES,
                      LAMBDA n, e : TextOf(n) = e.icon \o e.title \o e.description)
    /\ Rendered("Features") =>
          OnePerEntry(ByClass(output.Features, "styles.grid")[1].children,
                      consts.Features.FEATURES,
                      LAMBDA n, e : TextOf(n) = e.icon \o e.title \o e.description)
    /\ Rendered("Testimonials") =>
          OnePerEntry(ByClass(output.Testimonials, "styles.grid")[1].children,
                      consts.Testimonials.TESTIMONIALS,
                      LAMBDA n, e :
                          TextOf(n) = "\"" \o e.quote \o "\"" \o e.avatar \o e.name \o e.role)
    /\ Rendered("Footer") =>
          /\ OnePerEntry(ByClass(output.Footer, "styles.grid")[1].children,
                         consts.Footer.FOOTER_COLUMNS,
                         LAMBDA n, e :
                             /\ Len(n.children) = 2
                             /\ TextOf(n.children[1]) = e.title
                             /\ OnePerEntry(n.children[2].children, e.links, ShowsLink))
          /\ OnePerEntry(ByClass(output.Footer, "styles.socials")[1].children,
                         consts.Footer.SOCIAL_LINKS,
                         LAMBDA n, e : ShowsLink(n, [href |-> e.href, label |-> e.icon])
                                          /\ n.attrs.ariaLabel = e.label)

C2_Witness == \A c \in ComponentFiles : Rendered(c)

(***************************************************************************)
(* C3: the ids and hrefs used as iteration keys are unique within their    *)
(* list: Service.id, Feature.id, Testimonial.id, NavLink.href, and         *)
(* FooterLink.href within each FooterColumn; so are the keys of the        *)
(* sibling nodes rendered from them.                                       *)
(***************************************************************************)
Ids(list) == Field(list, LAMBDA e : e.id)

Hrefs(list) == Field(list, LAMBDA e : e.href)

Keys(nodes) == Field(nodes, LAMBDA n : n.key)

C3_KeysUnique ==
    /\ Distinct(Ids(consts.Services.SERVICES)) /\ Distinct(Ids(registry.SERVICES))
    /\ Distinct(Ids(consts.Features.FEATURES)) /\ Distinct(Ids(registry.FEATURES))
    /\ Distinct(Ids(consts.Testimonials.TESTIMONIALS))
    /\ Distinct(Ids(registry.TESTIMONIALS))
    /\ Distinct(Hrefs(consts.Header.NAV_LINKS)) /\ Distinct(Hrefs(registry.NAV_LINKS))
    /\ \A i \in DOMAIN consts.Footer.FOOTER_COLUMNS :
          Distinct(Hrefs(consts.Footer.FOOTER_COLUMNS[i].links))
    /\ \A i \in DOMAIN registry.FOOTER_COLUMNS :
          Distinct(Hrefs(registry.FOOTER_COLUMNS[i].links))
    /\ Rendered("Services") =>
          Keys(ByClass(output.Services, "styles.grid")[1].children)
              = Ids(consts.Services.SERVICES)
    /\ Rendered("Features") =>
          Keys(ByClass(output.Features, "styles.grid")[1].children)
              = Ids(consts.Features.FEATURES)
    /\ Rendered("Testimonials") =>
          Keys(ByClass(output.Testimonials, "styles.grid")[1].children)
              = Ids(consts.Testimonials.TESTIMONIALS)
    /\ Rendered("Header") =>
          LET keys == Keys(ByTag(output.Header, "nav")[1].children)
          IN  keys = Hrefs(consts.Header.NAV_LINKS) /\ Distinct(keys)
    /\ Rendered("Footer") =>
          \A i \in DOMAIN consts.Footer.FOOTER_COLUMNS :
              LET keys == Keys(ByClass(output.Footer, "styles.linkList")[i].children)
              IN  keys = Hrefs(consts.Footer.FOOTER_COLUMNS[i].links) /\ Distinct(keys)

C3_Witness == Rendered("Header") /\ Rendered("Footer") /\ ~Rendered("Home")

(***************************************************************************)
(* C4: Services renders exactly four cards, with the titles '2 Wheeler',   *)
(* 'Trucks', 'Packers & Movers', 'Enterprise' in this order (ids           *)
(* two-wheeler, trucks, packers-movers, enterprise) and no other title.    *)
(***************************************************************************)
C4_ServiceTitles ==
    Rendered("Services") =>
        LET cards == ByClass(output.Services, "styles.card")
        IN  /\ Len(cards) = 4
            /\ Keys(cards) = <<"two-wheeler", "trucks", "packers-movers", "enterprise">>
            /\ Field(ByTag(output.Services, "h3"), TextOf)
                  = <<"2 Wheeler", "Trucks", "Packers & Movers", "Enterprise">>
            /\ \A i \in DOMAIN cards :
                  Field(ByTag(cards[i], "h3"), TextOf)
                      = <<(<<"2 Wheeler", "Trucks", "Packers & Movers", "Enterprise">>)[i]>>

C4_Witness == Rendered("Services") /\ ~Rendered("Home")

(***************************************************************************)
(* C5: re-rendering is idempotent: every render of a component or of the   *)
(* whole page returns the tree its first render returned, the Footer       *)
(* copyright line included.                                                *)
(***************************************************************************)
C5_Idempotent == \A c \in Components : Rendered(c) => output[c] = first[c]

\* Footer is rendered again after the calendar year has changed
C5_Witness ==
    /\ Rendered("Footer")
    /\ getFullYear(renderedAt.Footer.first) < getFullYear(renderedAt.Footer.last)

(***************************************************************************)
(* C6: every list or value a component renders is the one exported by      *)
(* src/constants/index.ts: a component that renders content imports the    *)
(* registry module and holds no content of its own.                        *)
(***************************************************************************)
C6_RegistryIsSingleSource ==
    \A c \in ComponentFiles :
        Rendered(c) => RegistryModule \in Imports[c] /\ DOMAIN consts[c] = {}

(***************************************************************************)
(* C7: the only event handler of the page is the click handler of Hero's   *)
(* 'Get an Estimate' button; a click navigates nowhere, changes no content *)
(* list and no rendered output; a render has no effect on the content      *)
(* lists, the location or the console.                                     *)
(***************************************************************************)
EventHandlers(tree) == SelectSeq(Flatten(tree), LAMBDA n : n.attrs.onClick # Absent)

OnlyEstimateHandler ==
    /\ Rendered("Home") =>
          /\ Len(EventHandlers(output.Home)) = 1
          /\ EventHandlers(output.Home) = EventHandlers(output.Hero)
    /\ Rendered("Hero") =>
          /\ Len(EventHandlers(output.Hero)) = 1
          /\ EventHandlers(output.Hero)[1].tag = "button"
          /\ EventHandlers(output.Hero)[1].attrs.onClick = "handleGetEstimate"
          /\ TextOf(EventHandlers(output.Hero)[1].children[1]) = "Get an Estimate U+2192"
    /\ \A c \in ComponentFiles \ {"Hero"} :
          Rendered(c) => EventHandlers(output[c]) = <<>>

C7_OnlyHandlerIsInert ==
    /\ []OnlyEstimateHandler
    /\ [][clicks' # clicks =>
            /\ location' = location
            /\ consts' = consts /\ registry' = registry
            /\ output' = output /\ first' = first]_vars
    /\ [][renders' # renders =>
            /\ location' = location /\ console' = console
            /\ consts' = consts /\ registry' = registry]_vars

\* the estimate button of a rendered page has been clicked twice
C7_Witness == Rendered("Home") /\ Len(console) >= 2

(***************************************************************************)
(* C8: the content lists are read-only after startup: no render and no     *)
(* click adds, removes, reorders or modifies an entry of a list of the     *)
(* registry or of a component file.                                        *)
(***************************************************************************)
C8_ContentReadOnly == [][consts' = consts /\ registry' = registry]_vars

C8_Witness ==
    /\ renders >= 2 /\ Len(console) >= 1
    /\ consts.Footer.SOCIAL_LINKS = SOCIAL_LINKS
    /\ registry.SOCIAL_LINKS = Registry_SOCIAL_LINKS

(***************************************************************************)
(* C9: every button and every link of a rendered tree carries an           *)
(* aria-label.                                                             *)
(***************************************************************************)
Interactive(n) == n.tag \in {"button", "a"}

C9_InteractiveLabelled ==
    \A c \in Components :
        \A n \in Range(Flatten(output[c])) :
            Interactive(n) => n.attrs.ariaLabel # Absent

(***************************************************************************)
(* C10: the headings of the rendered page, in document order, form a       *)
(* proper hierarchy: the h1 comes before any h2, and no heading is more    *)
(* than one level deeper than the heading before it.                       *)
(***************************************************************************)
HeadingTags == <<"h1", "h2", "h3", "h4", "h5", "h6">>

HeadingLevel(n) == CHOOSE l \in DOMAIN HeadingTags : HeadingTags[l] = n.tag

HeadingLevels(tree) ==
    Field(SelectSeq(Flatten(tree), LAMBDA n : n.tag \in Range(HeadingTags)), HeadingLevel)

C10_HeadingHierarchy ==
    Rendered("Home") =>
        LET levels == HeadingLevels(output.Home)
        IN  /\ \A i \in DOMAIN levels :
                  levels[i] = 2 => \E j \in 1..(i - 1) : levels[j] = 1
            /\ \A i \in 1..(Len(levels) - 1) : levels[i + 1] <= levels[i] + 1

(***************************************************************************)
(* C11: every list rendering uses as the key of a node the `id` field of   *)
(* the entry the node is rendered from (never the array index), and the    *)
(* key is the same on every render.                                        *)
(***************************************************************************)
KeyIsId(nodes, list) ==
    /\ Len(nodes) = Len(list)
    /\ \A i \in DOMAIN list :
          "id" \in DOMAIN list[i] /\ nodes[i].key = list[i].id

C11_KeysAreIdFields ==
    /\ Rendered("Header") =>
          KeyIsId(ByTag(output.Header, "nav")[1].children, consts.Header.NAV_LINKS)
    /\ Rendered("Hero") =>
          KeyIsId(ByClass(output.Hero, "styles.serviceOption"),
                  consts.Hero.SERVICE_OPTIONS)
    /\ Rendered("Services") =>
          KeyIsId(ByClass(output.Services, "styles.grid")[1].children,
                  consts.Services.SERVICES)
    /\ Rendered("Features") =>
          KeyIsId(ByClass(output.Features, "styles.grid")[1].children,
                  consts.Features.FEATURES)
    /\ Rendered("Testimonials") =>
          KeyIsId(ByClass(output.Testimonials, "styles.grid")[1].children,
                  consts.Testimonials.TESTIMONIALS)
    /\ Rendered("Footer") =>
          /\ KeyIsId(ByClass(output.Footer, "styles.grid")[1].children,
                     consts.Footer.FOOTER_COLUMNS)
          /\ \A i \in DOMAIN consts.Footer.FOOTER_COLUMNS :
                KeyIsId(ByClass(output.Footer, "styles.linkList")[i].children,
                        consts.Footer.FOOTER_COLUMNS[i].links)
          /\ KeyIsId(ByClass(output.Footer, "styles.socials")[1].children,
                     consts.Footer.SOCIAL_LINKS)
    /\ \A c \in Components :
          Rendered(c) => Keys(Flatten(output[c])) = Keys(Flatten(first[c]))

(***************************************************************************)
(* C12: no operation fails: no render of a component or of the page and no *)
(* click on the estimate button throws, in any sequence.                   *)
(***************************************************************************)
C12_NothingThrows ==
    /\ thrown = <<>>
    /\ \A c \in Components : ~Throws(c)

\* the page was rendered, re-rendered and its estimate button clicked
C12_Witness ==
    /\ renderedAt.Home.first > 0 /\ renders >= 2
    /\ Len(console) >= 1
    /\ \A c \in Components : Rendered(c)

(***************************************************************************)
(* C13: the rendered tree uses landmark elements: the root of Header is a  *)
(* <header> that contains a <nav>; the roots of Hero, Services, Features   *)
(* and Testimonials are <section>s; the root of Footer is a <footer>; the  *)
(* page has exactly one <header>, one <footer> and one <main>.             *)
(***************************************************************************)
C13_Landmarks ==
    /\ Rendered("Header") =>
          /\ output.Header.tag = "header"
          /\ Len(ByTag(output.Header, "nav")) >= 1
          /\ ByTag(output.Header, "nav")[1] # output.Header
    /\ \A c \in {"Hero", "Services", "Features", "Testimonials"} :
          Rendered(c) => output[c].tag = "section"
    /\ Rendered("Footer") => output.Footer.tag = "footer"
    /\ Rendered("Home") =>
          /\ Len(ByTag(output.Home, "header")) = 1
          /\ Len(ByTag(output.Home, "footer")) = 1
          /\ Len(ByTag(output.Home, "main")) = 1
          /\ Len(ByTag(output.Home, "section")) = 4

C13_Witness == Rendered("Home") /\ output.Home.children[3].component = "Services"

(***************************************************************************)
(* C14: the Hero widget lets the user select a service type: a click on    *)
(* one of the rendered service options (Truck, Two Wheeler, Packers &      *)
(* Movers) changes which service is selected, so it changes what the page  *)
(* holds or shows.                                                         *)
(***************************************************************************)
C14_OptionClickSelects ==
    [][(\E o \in MountedServiceOptions : Click(o)) =>
            <<consts, output, console, location>>' # <<consts, output, console, location>>]_vars

(***************************************************************************)
(* C15: Testimonials renders each customer testimonial with a rating: the  *)
(* entry has a rating and its card shows it.                               *)
(***************************************************************************)
C15_TestimonialsShowRating ==
    Rendered("Testimonials") =>
        LET cards == ByClass(output.Testimonials, "styles.card")
        IN  /\ Len(cards) = Len(consts.Testimonials.TESTIMONIALS)
            /\ \A i \in DOMAIN consts.Testimonials.TESTIMONIALS :
                  LET e == consts.Testimonials.TESTIMONIALS[i]
                  IN  /\ "rating" \in DOMAIN e
                      /\ \E n \in Range(Flatten(cards[i])) :
                            n.tag = "#text" /\ n.text = ToString(e.rating)

(***************************************************************************)
(* C16: Features renders exactly three feature blocks, with the titles     *)
(* 'On-Time Delivery', 'Real-time Tracking', 'Economical Pricing' in this  *)
(* order.                                                                  *)
(***************************************************************************)
FeatureTitles == <<"On-Time Delivery", "Real-time Tracking", "Economical Pricing">>

C16_FeatureTitles ==
    Rendered("Features") =>
        LET blocks == ByClass(output.Features, "styles.feature")
        IN  /\ Len(blocks) = 3
            /\ blocks = ByClass(output.Features, "styles.grid")[1].children
            /\ Field(ByTag(output.Features, "h3"), TextOf) = FeatureTitles
            /\ \A i \in DOMAIN blocks :
                  Field(ByTag(blocks[i], "h3"), TextOf) = <<FeatureTitles[i]>>

C16_Witness == Rendered("Features") /\ ~Rendered("Home")

(***************************************************************************)
(* C17: no component writes to the console at any point of a run, also     *)
(* not when the estimate button is clicked.                                *)
(***************************************************************************)
C17_ConsoleSilent == console = <<>>

(***************************************************************************)
(* C18: every decorative icon (the icon of a Service, of a Feature and of  *)
(* a service option, the pin and the dropdown arrow of Hero) is rendered   *)
(* inside an element marked aria-hidden="true", and no text outside an     *)
(* aria-hidden element is one of these decorative glyphs.                  *)
(***************************************************************************)
\* the texts of a tree in document order that are (inside = TRUE) or are not
\* (inside = FALSE) within an aria-hidden element
RECURSIVE TextsWhere(_, _, _), TextsWhereAll(_, _, _)
TextsWhere(node, hidden, inside) ==
    LET h == hidden \/ node.attrs.ariaHidden = "true"
    IN  (IF node.tag = "#text" /\ h = inside THEN <<node.text>> ELSE <<>>)
            \o TextsWhereAll(node.children, h, inside)
TextsWhereAll(nodes, hidden, inside) ==
    IF nodes = <<>> THEN <<>>
    ELSE TextsWhere(Head(nodes), hidden, inside)
            \o TextsWhereAll(Tail(nodes), hidden, inside)

HiddenTexts(tree) == TextsWhere(tree, FALSE, TRUE)

ExposedTexts(tree) == TextsWhere(tree, FALSE, FALSE)

Icons(list) == Field(list, LAMBDA e : e.icon)

HeroGlyphs == <<"U+1F4CD", "U+25BC">>

DecorativeGlyphs ==
    Range(Icons(consts.Services.SERVICES)) \cup Range(Icons(consts.Features.FEATURES))
        \cup Range(Icons(consts.Hero.SERVICE_OPTIONS)) \cup Range(HeroGlyphs)

C18_DecorativeHidden ==
    /\ Rendered("Services") =>
          HiddenTexts(output.Services) = Icons(consts.Services.SERVICES)
    /\ Rendered("Features") =>
          HiddenTexts(output.Features) = Icons(consts.Features.FEATURES)
    /\ Rendered("Hero") =>
          HiddenTexts(output.Hero) = HeroGlyphs \o Icons(consts.Hero.SERVICE_OPTIONS)
    /\ \A c \in Components :
          Rendered(c) =>
              /\ Range(ExposedTexts(output[c])) \cap DecorativeGlyphs = {}
              /\ Len(HiddenTexts(output[c])) + Len(ExposedTexts(output[c]))
                    = Len(ByTag(output[c], "#text"))

C18_Witness ==
    /\ Rendered("Hero") /\ Rendered("Services") /\ Rendered("Features")
    /\ Len(HiddenTexts(output.Home)) = 12

(***************************************************************************)
(* C19: the keys that are neither id nor href (ServiceOption.label in      *)
(* Hero, FooterColumn.title and SocialLink.label in Footer) are unique     *)
(* among their siblings, so no two sibling nodes of a rendered list share  *)
(* a key; SocialLink.href, '#' for every social link, is not used as key.  *)
(***************************************************************************)
Labels(list) == Field(list, LAMBDA e : e.label)

Titles(list) == Field(list, LAMBDA e : e.title)

SiblingKeysDistinct(tree) ==
    \A n \in Range(Flatten(tree)) :
        Distinct(SelectSeq(Keys(n.children), LAMBDA k : k # Absent))

C19_SiblingKeysUnique ==
    /\ Distinct(Labels(consts.Hero.SERVICE_OPTIONS))
    /\ Distinct(Titles(consts.Footer.FOOTER_COLUMNS))
    /\ Distinct(Labels(consts.Footer.SOCIAL_LINKS))
    /\ Rendered("Hero") =>
          Keys(ByClass(output.Hero, "styles.serviceOption"))
              = Labels(consts.Hero.SERVICE_OPTIONS)
    /\ Rendered("Footer") =>
          /\ Keys(ByClass(output.Footer, "styles.grid")[1].children)
                = Titles(consts.Footer.FOOTER_COLUMNS)
          /\ LET socials == ByClass(output.Footer, "styles.socials")[1].children
             IN  /\ Keys(socials) = Labels(consts.Footer.SOCIAL_LINKS)
                 /\ \A i \in DOMAIN socials : socials[i].key # socials[i].attrs.href
    /\ \A c \in Components : Rendered(c) => SiblingKeysDistinct(output[c])

C19_Witness == Rendered("Hero") /\ Rendered("Footer") /\ ~Rendered("Home")

(***************************************************************************)
(* C20: every content list or value of a component file equals, entry for  *)
(* entry, field for field and in the same order, the export of the same    *)
(* name of src/constants/index.ts (NAV_LINKS, SERVICES, FEATURES,          *)
(* TESTIMONIALS, FOOTER_COLUMNS, SOCIAL_LINKS, SERVICE_OPTIONS,            *)
(* DEFAULT_CITY).                                                          *)
(***************************************************************************)
RegistryNames ==
    {"NAV_LINKS", "SERVICES", "FEATURES", "TESTIMONIALS", "FOOTER_COLUMNS",
     "SOCIAL_LINKS", "SERVICE_OPTIONS", "DEFAULT_CITY"}

C20_LocalEqualsRegistry ==
    /\ \A c \in ComponentFiles :
          \A name \in DOMAIN consts[c] \cap RegistryNames :
              consts[c][name] = registry[name]
    \* every one of the eight names is held by some component file
    /\ RegistryNames \subseteq UNION {DOMAIN consts[c] : c \in ComponentFiles}
    /\ RegistryNames \subseteq DOMAIN registry

C20_Witness ==
    /\ Rendered("Home") /\ renders >= 2 /\ clicks >= 2
    /\ consts.Hero.DEFAULT_CITY = registry.DEFAULT_CITY

(***************************************************************************)
(* C21: the year of the Footer copyright line is the calendar year at the  *)
(* moment the Footer module was loaded, not the year at render time: a     *)
(* render after the clock has passed a year boundary still shows the year  *)
(* of the load.                                                            *)
(***************************************************************************)
CopyrightLines(tree) ==
    LET bottoms == ByClass(tree, "styles.bottom")
    IN  [i \in DOMAIN bottoms |-> bottoms[i].children[1]]

YearsShown(tree) == {CopyrightLines(tree)[i].children[2].text : i \in DOMAIN CopyrightLines(tree)}

C21_YearIsLoadYear ==
    \A c \in {"Footer", "Home"} :
        Rendered(c) => YearsShown(output[c]) = {ToString(getFullYear(loadedAt))}

\* Footer is rendered in a later calendar year than the one its module was loaded in
C21_Witness ==
    /\ Rendered("Footer")
    /\ getFullYear(loadedAt) < getFullYear(renderedAt.Footer.last)
    /\ TextOf(CopyrightLines(output.Footer)[1]) =
           "U+00A9 " \o ToString(getFullYear(loadedAt)) \o " Porter. All rights reserved."

(***************************************************************************)
(* C23: Footer renders, for each column in list order, one block with the  *)
(* column title followed by one <nav> labelled "<title> links" that holds  *)
(* one anchor per link of the column in link order (4, 4, 4 and 2 anchors, *)
(* 14 in total); after the columns comes the copyright line, followed by   *)
(* one anchor per social link in list order.  The aria-labels of all <nav> *)
(* elements of the page are pairwise distinct.                             *)
(***************************************************************************)
NavLabels(tree) == Field(ByTag(tree, "nav"), LAMBDA n : n.attrs.ariaLabel)

FooterBlocks == ByClass(output.Footer, "styles.grid")[1].children

C23_FooterStructure ==
    /\ Rendered("Footer") =>
          LET container == output.Footer.children[1]
              bottom == container.children[2]
          IN  /\ Field(container.children, LAMBDA n : n.className)
                    = <<"styles.grid", "styles.bottom">>
              /\ Field(FooterBlocks, LAMBDA b : Field(b.children, LAMBDA n : n.tag))
                    = [i \in DOMAIN consts.Footer.FOOTER_COLUMNS |-> <<"h4", "nav">>]
              /\ Field(FooterBlocks, LAMBDA b : TextOf(b.children[1]))
                    = <<"Company", "Services", "Support", "Download App">>
              /\ Field(FooterBlocks, LAMBDA b : b.children[2].attrs.ariaLabel)
                    = <<"Company links", "Services links", "Support links",
                        "Download App links">>
              /\ \A i \in DOMAIN FooterBlocks :
                    OnePerEntry(FooterBlocks[i].children[2].children,
                                consts.Footer.FOOTER_COLUMNS[i].links, ShowsLink)
              /\ Field(FooterBlocks, LAMBDA b : Len(ByTag(b, "a"))) = <<4, 4, 4, 2>>
              /\ Len(ByTag(container.children[1], "a")) = 14
              /\ Field(bottom.children, LAMBDA n : n.tag) = <<"p", "div">>
              /\ bottom.children[1] = CopyrightLines(output.Footer)[1]
              /\ OnePerEntry(bottom.children[2].children, consts.Footer.SOCIAL_LINKS,
                             LAMBDA n, e : /\ n.tag = "a"
                                           /\ n.attrs.href = e.href
                                           /\ n.attrs.ariaLabel = e.label
                                           /\ TextOf(n) = e.icon)
              /\ Len(ByTag(output.Footer, "a")) = 14 + Len(consts.Footer.SOCIAL_LINKS)
    /\ Rendered("Home") =>
          /\ Distinct(NavLabels(output.Home))
          /\ NavLabels(output.Home)
                = <<"Main navigation", "Company links", "Services links", "Support links",
                    "Download App links">>

\* the whole page is rendered, Footer with its four labelled <nav> blocks included
C23_Witness ==
    /\ Rendered("Home")
    /\ Len(ByTag(output.Footer, "nav")) = 4
    /\ Len(ByTag(output.Home, "nav")) = 5

(***************************************************************************)
(* C24: the Header buttons "Track Order" and "Login" have no handler:      *)
(* activating either one, any number of times, changes no state, navigates *)
(* nowhere and leaves the rendered output unchanged.                       *)
(***************************************************************************)
HeaderButtons == ByTag(output.Header, "button")

C24_HeaderButtonsInert ==
    /\ [](Rendered("Header") =>
            /\ Field(HeaderButtons, TextOf) = <<"Track Order", "Login">>
            /\ \A i \in DOMAIN HeaderButtons : HeaderButtons[i].attrs.onClick = Absent)
    /\ [][Rendered("Header") =>
            \A i \in DOMAIN HeaderButtons :
                Click(HeaderButtons[i]) =>
                    UNCHANGED <<consts, registry, output, first, renderedAt, renders,
                                console, location, thrown>>]_vars

\* only Header is on screen and its buttons have been activated twice
C24_Witness ==
    /\ Rendered("Header")
    /\ \A c \in Components \ {"Header"} : ~Rendered(c)
    /\ clicks >= 2
    /\ console = <<>>
    /\ location = "/"

(***************************************************************************)
(* C25: the rendered page contains exactly one h1 element, the hashtag     *)
(* line of Hero, whatever the number of renders.                           *)
(***************************************************************************)
C25_SingleH1 ==
    /\ Rendered("Home") =>
          /\ Len(ByTag(output.Home, "h1")) = 1
          /\ TextOf(ByTag(output.Home, "h1")[1]) = "#HoJayega!"
          /\ ByTag(output.Home, "h1") = ByTag(output.Home.children[2], "h1")
          /\ output.Home.children[2].component = "Hero"
    /\ \A c \in ComponentFiles :
          Rendered(c) => Len(ByTag(output[c], "h1")) = (IF c = "Hero" THEN 1 ELSE 0)

\* the page has been rendered more than once
C25_Witness ==
    /\ Rendered("Home")
    /\ renders >= 2
    /\ renderedAt.Home.first # renderedAt.Home.last
    /\ Len(ByTag(output.Home, "h1")) = 1

(***************************************************************************)
(* C27: in the Hero widget the city selector is rendered before the        *)
(* service options; all service options are rendered, in list order,       *)
(* before the "Get an Estimate" button, which is the last child of the     *)
(* service-options region; the city shown is DEFAULT_CITY, "Ahmedabad".    *)
(***************************************************************************)
HeroWidget == ByClass(output.Hero, "styles.floatingWidget")[1]

ServicesGrid == ByClass(output.Hero, "styles.servicesGrid")[1]

C27_HeroWidgetOrder ==
    Rendered("Hero") =>
        LET options == consts.Hero.SERVICE_OPTIONS
            region == ServicesGrid.children
        IN  /\ Field(HeroWidget.children, LAMBDA n : n.className)
                  = <<"styles.citySelector", "styles.servicesGrid">>
            /\ ServicesGrid.attrs.ariaLabel = "Service options"
            /\ Len(region) = Len(options) + 1
            /\ \A i \in DOMAIN options :
                  /\ region[i].className = "styles.serviceOption"
                  /\ TextOf(region[i]) = options[i].icon \o options[i].label
            /\ Field(SubSeq(region, 1, Len(options)), LAMBDA n : TextOf(n.children[2]))
                  = <<"Truck", "Two Wheeler", "Packers & Movers">>
            /\ region[Len(region)].tag = "button"
            /\ TextOf(region[Len(region)].children[1]) = "Get an Estimate U+2192"
            /\ Len(ByTag(ServicesGrid, "button")) = 1
            /\ Field(ByTag(HeroWidget.children[1], "strong"), TextOf)
                  = <<consts.Hero.DEFAULT_CITY>>
            /\ TextOf(HeroWidget.children[1]) = "U+1F4CD" \o "City: Ahmedabad" \o "U+25BC"
            /\ ByTag(output.Hero, "strong") = ByTag(HeroWidget.children[1], "strong")

\* Hero is rendered again, after the estimate button has been clicked
C27_Witness ==
    /\ Rendered("Hero")
    /\ renderedAt.Hero.first < renderedAt.Hero.last
    /\ console # <<>>
    /\ Len(ServicesGrid.children) = 4

(***************************************************************************)
(* C28: for every testimonial the rendered card shows the quote wrapped in *)
(* double quotation marks, then an avatar element whose text is the        *)
(* entry's avatar, whose title is "<name> - <role>" and whose aria-label   *)
(* is the name, followed by the name and then the role; in the data, each  *)
(* avatar is the initials of the words of the name.                        *)
(***************************************************************************)
RECURSIVE InitialsFrom(_, _)
InitialsFrom(name, i) ==
    IF i > Len(name) THEN ""
    ELSE (IF SubSeq(name, i, i) # " " /\ (i = 1 \/ SubSeq(name, i - 1, i - 1) = " ")
              THEN SubSeq(name, i, i) ELSE "")
         \o InitialsFrom(name, i + 1)

Initials(name) == InitialsFrom(name, 1)

TestimonialCards == ByClass(output.Testimonials, "styles.grid")[1].children

C28_TestimonialCards ==
    /\ \A i \in DOMAIN consts.Testimonials.TESTIMONIALS :
          LET t == consts.Testimonials.TESTIMONIALS[i]
          IN  /\ t.avatar = Initials(t.name)
              /\ Len(t.avatar) = 2
    /\ Field(consts.Testimonials.TESTIMONIALS, LAMBDA t : t.avatar) = <<"RK", "PS", "AP">>
    /\ Rendered("Testimonials") =>
          /\ Len(TestimonialCards) = Len(consts.Testimonials.TESTIMONIALS)
          /\ \A i \in DOMAIN TestimonialCards :
                LET t == consts.Testimonials.TESTIMONIALS[i]
                    card == TestimonialCards[i]
                    author == card.children[2]
                    avatar == author.children[1]
                    info == author.children[2]
                IN  /\ Field(card.children, LAMBDA n : n.className)
                          = <<"styles.quote", "styles.author">>
                    /\ TextOf(card.children[1]) = "\"" \o t.quote \o "\""
                    /\ Field(author.children, LAMBDA n : n.className)
                          = <<"styles.avatar", "styles.authorInfo">>
                    /\ TextOf(avatar) = t.avatar
                    /\ avatar.attrs.title = t.name \o " - " \o t.role
                    /\ avatar.attrs.ariaLabel = t.name
                    /\ Field(info.children, LAMBDA n : n.className)
                          = <<"styles.name", "styles.role">>
                    /\ Field(info.children, TextOf) = <<t.name, t.role>>
          /\ Field(TestimonialCards, LAMBDA c : c.children[2].children[1].attrs.title)
                = <<"Rajesh Kumar - Business Owner", "Priya Singh - Home Maker",
                    "Amit Patel - Freelancer">>

\* the three testimonial cards are on screen
C28_Witness ==
    /\ Rendered("Testimonials")
    /\ Len(TestimonialCards) = 3
    /\ Field(TestimonialCards, LAMBDA c : TextOf(c.children[2].children[1]))
          = <<Initials("Rajesh Kumar"), Initials("Priya Singh"), Initials("Amit Patel")>>

(***************************************************************************)
(* C26: RootLayout renders its children exactly once and unchanged, as the *)
(* only content of a <body> inside an <html lang="en">, for any children;  *)
(* it adds no other node around or beside them.                            *)
(***************************************************************************)
LayoutCalled == layout.tree # Unrendered

C26_LayoutWrapsChildren ==
    LayoutCalled =>
        /\ layout.tree.tag = "html"
        /\ layout.tree.attrs = [NoAttrs EXCEPT !.lang = "en"]
        /\ Field(layout.tree.children, LAMBDA n : n.tag) = <<"body">>
        /\ layout.tree.children[1].children = layout.children
        /\ Len(Flatten(layout.tree)) = 2 + Len(FlattenAll(layout.children))
        /\ Len(ByTag(layout.tree, "html")) = 1
        /\ Len(ByTag(layout.tree, "body")) = 1

\* RootLayout has been called with the rendered page as its only child
C26_Witness ==
    /\ LayoutCalled
    /\ Rendered("Home")
    /\ layout.children = <<output.Home>>
    /\ Len(ByTag(layout.tree, "main")) = 1

(***************************************************************************)
(* C22: renders share no mutable state: for any interleaving of two or     *)
(* more renders of the page, and of clicks on the estimate button, every   *)
(* render builds and returns the tree it returns when the renders run one  *)
(* after another.                                                          *)
(***************************************************************************)
Running(t) == tasks[t] # Idle

\* what a render of Home that runs alone returns
Sequential == Tree("Home")

C22_InterleavingInvisible ==
    /\ \A t \in TaskIds :
          Running(t) => tasks[t] = SubSeq(Sequential.children, 1, Len(tasks[t]))
    /\ Rendered("Home") => output.Home = Sequential /\ first.Home = Sequential
    /\ \A c \in ComponentFiles : Rendered(c) => output[c] = Tree(c) /\ first[c] = Tree(c)

\* two renders are under way at different positions, after a click on the
\* estimate button that the first of them rendered
C22_Witness ==
    /\ \E t, u \in TaskIds :
          /\ Running(t) /\ Running(u)
          /\ 2 <= Len(tasks[u]) /\ Len(tasks[u]) < Len(tasks[t])
          /\ Len(tasks[t]) < Len(HomeCalls)
    /\ console # <<>>
====
